---- MODULE Spec2Model ----
(***************************************************************************)
(* A model of src/network.py: the neighbour aggregators, the three-hop GIN *)
(* encoder stack, the residual transforms, the partitioned classifier      *)
(* (LinearChunk / LinearDistributed) and the orchestrator GalaXCBase.      *)
(*                                                                         *)
(* Tensors are modelled by their shape and, where a claim is about which   *)
(* parameter rows produce which output entry, by symbolic entries.  A      *)
(* logit is the record [shard, w, b, e]: computed by shard `shard` from    *)
(* its weight/attention row `w`, its bias row `b` and example `e` of the   *)
(* embedding batch.  Shards are numbered from 0 as in the source; TLA+     *)
(* sequences are indexed from 1, so shard i is element i+1 of a list.      *)
(***************************************************************************)
EXTENDS Integers, Sequences, FiniteSets, TLC

VARIABLES
    classifier,  \* the LinearDistributed layer (built = FALSE before construction)
    model,       \* the GalaXCBase orchestrator around it
    context,     \* the batch context filled in by GalaXCBase.query
    stdout,      \* the partition table last printed by a constructor
    made,        \* the outcome of the last constructor call
    res,         \* the last classifier forward: its inputs and outcome
    agg,         \* the last aggregator call: its inputs and outcome
    enc,         \* the last encode: its outcome
    placed,      \* move_to_devices ran since construction / the last reassignment
    chunkrun,    \* the last forward of one LinearChunk, entry by entry
    hopout       \* the last forward of one encoder hop on its context

vars == <<classifier, model, context, stdout, made, res, agg, enc, placed, chunkrun, hopout>>

(***************************************************************************)
(* Bounds of the model.                                                    *)
(***************************************************************************)
MaxLabels == 3
MaxShards == 3
MaxBatch == 2
MaxK == 3
MaxId == 1
MaxRows == 6
MaxDim == 2
MaxNodes == 3
MaxFanout == 2
MaxHops == 4
MaxInput == 2

Min(a, b) == IF a < b THEN a ELSE b

RECURSIVE SumTo(_, _)
SumTo(f, n) == IF n = 0 THEN 0 ELSE f[n] + SumTo(f, n - 1)

RECURSIVE Flatten(_)
Flatten(ss) == IF ss = <<>> THEN <<>> ELSE Head(ss) \o Flatten(Tail(ss))

(* Python's seq[a:b] for 0 <= a, 0 <= b (0-based, half-open, clipped). *)
Slice(s, a, b) == SubSeq(s, a + 1, Min(b, Len(s)))

(***************************************************************************)
(* LinearDistributed.__init__: the partition table.                        *)
(***************************************************************************)
(* math.ceil(output_size / self.num_partitions) *)
partition_size(output_size, num_partitions) ==
    (output_size + num_partitions - 1) \div num_partitions

partition_indices(output_size, num_partitions) ==
    [p \in 1..num_partitions |->
        LET _start == (p - 1) * partition_size(output_size, num_partitions)
            _end == Min(_start + partition_size(output_size, num_partitions),
                        output_size)
        IN  <<_start, _end>>]

(* LinearChunk.__init__: torch.Tensor(output_size, input_size) raises on a *)
(* negative dimension; parameters are created on the cpu.                  *)
LinearChunk_init(output_size, device_embeddings) ==
    [ok |-> output_size >= 0,
     obj |-> [output_size |-> output_size,
              device_embeddings |-> device_embeddings,
              param_device |-> "cpu"]]

NoClassifier ==
    [built |-> FALSE, output_size |-> 0, device_embeddings |-> <<>>,
     partition_indices |-> <<>>, classifiers |-> <<>>]

(* The table is printed (line 373) before the shards are created, so it is *)
(* observable even when a shard's construction then fails.                 *)
LinearDistributed_init(output_size, device_embeddings) ==
    LET n == Len(device_embeddings)
        pi == partition_indices(output_size, n)
        chunks == [p \in 1..n |->
                      LinearChunk_init(pi[p][2] - pi[p][1], device_embeddings[p])]
    IN  [ok |-> \A p \in 1..n : chunks[p].ok,
         printed |-> pi,
         obj |-> [built |-> TRUE,
                  output_size |-> output_size,
                  device_embeddings |-> device_embeddings,
                  partition_indices |-> pi,
                  classifiers |-> [p \in 1..n |-> chunks[p].obj]]]

(***************************************************************************)
(* LinearChunk.forward.  `shard` is the 0-based shard number, `embed` the  *)
(* embedding batch [dev, x] (x[r] names example r), `ids` the label ids    *)
(* [kind, dev, v, m]: kind "none" (None), "1d" (the list v) or "2d" (the   *)
(* matrix m, a list of rows).                                              *)
(***************************************************************************)
Logit(shard, w, b, e) == [shard |-> shard, w |-> w, b |-> b, e |-> e]

Failure(err) == [status |-> "error", err |-> err, x |-> <<>>]
Success(x) == [status |-> "ok", err |-> "", x |-> x]

(* input[1] is None: every row of the shard, in row order. *)
LinearChunk_dense(chunk, shard, embed) ==
    IF embed.dev # chunk.param_device THEN Failure("device")
    ELSE Success([r \in 1..Len(embed.x) |->
                    [j \in 1..chunk.output_size |->
                        Logit(shard, j - 1, j - 1, embed.x[r])]])

(* len(input[1].shape) == 1: self.weight[input[1]] indexes the shard's     *)
(* rows with the ids as given; the index tensor is not moved, so it must   *)
(* be on the cpu or on the parameters' device.                             *)
LinearChunk_1d(chunk, shard, embed, ids) ==
    IF \/ embed.dev # chunk.param_device
       \/ ids.dev \notin {"cpu", chunk.param_device}
    THEN Failure("device")
    ELSE IF \E c \in 1..Len(ids.v) : ids.v[c] >= chunk.output_size
    THEN Failure("index")
    ELSE Success([r \in 1..Len(embed.x) |->
                    [c \in 1..Len(ids.v) |->
                        Logit(shard, ids.v[c], ids.v[c], embed.x[r])]])

(* short_bias.squeeze() drops every dimension of size 1 from (B, K, 1):    *)
(* with K = 1 and B > 1 the bias becomes a vector of length B, and         *)
(* (B, 1) + (B,) broadcasts to (B, B), entry (r, c) adding the bias of     *)
(* example c's candidate to the dot product of example r.                  *)
squeeze_broadcasts(B, K) == K = 1 /\ B > 1

(* len(input[1].shape) == 2: F.embedding looks the ids up in the shard's   *)
(* rows (ids moved to self.device_embeddings), then .view(B * K, -1).      *)
LinearChunk_2d(chunk, shard, embed, ids) ==
    LET B == Len(ids.m)
        K == Len(ids.m[1])
    IN  IF \/ chunk.device_embeddings # chunk.param_device
           \/ embed.dev # chunk.param_device
        THEN Failure("device")
        ELSE IF \E r \in 1..B : \E c \in 1..K : ids.m[r][c] >= chunk.output_size
        THEN Failure("index")
        ELSE IF B * K = 0
        THEN Failure("shape")
        ELSE IF squeeze_broadcasts(B, K)
        THEN Success([r \in 1..B |->
                        [c \in 1..B |->
                            Logit(shard, ids.m[r][1], ids.m[c][1], embed.x[r])]])
        ELSE Success([r \in 1..B |->
                        [c \in 1..K |->
                            Logit(shard, ids.m[r][c], ids.m[r][c], embed.x[r])]])

LinearChunk_forward(chunk, shard, embed, ids) ==
    IF ids.kind = "none" THEN LinearChunk_dense(chunk, shard, embed)
    ELSE IF ids.kind = "1d" THEN LinearChunk_1d(chunk, shard, embed, ids)
    ELSE LinearChunk_2d(chunk, shard, embed, ids)

(***************************************************************************)
(* LinearDistributed.forward.                                              *)
(***************************************************************************)
(* torch.cat(total_x, dim=1): row r of the result is the concatenation of  *)
(* row r of every shard's output, in list order.                           *)
cat_dim1_reversed(total_x, B) ==
    [r \in 1..B |->
        Flatten([p \in 1..Len(total_x) |-> total_x[Len(total_x) + 1 - p][r]])]

cat_dim1(total_x, B) ==
    [r \in 1..B |-> Flatten([p \in 1..Len(total_x) |-> total_x[p][r]])]

(* What shard p (1-based position) is handed as input[1]. *)
shard_ids(clf, p, ids) ==
    IF ids.kind = "none" THEN ids
    ELSE IF ids.kind = "1d"
    THEN [ids EXCEPT !.v = Slice(ids.v, clf.partition_indices[p][1],
                                 clf.partition_indices[p][2])]
    ELSE LET partition_length == Len(ids.m[1]) \div Len(clf.partition_indices)
         IN  [ids EXCEPT !.m = [r \in 1..Len(ids.m) |->
                                  SubSeq(ids.m[r], (p - 1) * partition_length + 1,
                                         p * partition_length)]]

shard_outputs(clf, input0, ids) ==
    [p \in 1..Len(clf.device_embeddings) |->
        LinearChunk_forward(clf.classifiers[p], p - 1,
                            [dev |-> clf.device_embeddings[p], x |-> input0.x],
                            shard_ids(clf, p, ids))]

(* The shards are evaluated in order; the first one that raises ends the   *)
(* call.  Every shard's output is moved to device_embeddings[0] first.     *)
LinearDistributed_forward(clf, input0, ids) ==
    LET outs == shard_outputs(clf, input0, ids)
        bad == {p \in 1..Len(outs) : outs[p].status = "error"}
    IN  IF bad # {}
        THEN Failure(outs[CHOOSE p \in bad : \A q \in bad : p <= q].err)
        ELSE Success(cat_dim1([p \in 1..Len(outs) |-> outs[p].x], Len(input0.x)))

(***************************************************************************)
(* Tensors: [shape |-> <<d1, ..., dn>>, data |-> the entries, row-major].  *)
(***************************************************************************)
RECURSIVE Product(_)
Product(shape) == IF shape = <<>> THEN 1 ELSE Head(shape) * Product(Tail(shape))

(* All entries share the denominator den (1 except after a mean).          *)
Tensor(shape, data) == [shape |-> shape, data |-> data, den |-> 1]

(* Entry (i, j) of a matrix, both counted from 1. *)
At(t, i, j) == t.data[(i - 1) * t.shape[2] + j]

Row(t, i) == [j \in 1..t.shape[2] |-> At(t, i, j)]

(***************************************************************************)
(* MeanAggregator.forward / SumAggregator.forward, applied to              *)
(* neigh_feats = self.features(neighs).to(device).                         *)
(***************************************************************************)
FailureT(err) == [status |-> "error", err |-> err, x |-> Tensor(<<>>, <<>>)]
SuccessT(x) == [status |-> "ok", err |-> "", x |-> x]

(* int(neigh_feats.shape[0] / node_count) *)
nb_count(neigh_feats, node_count) == neigh_feats.shape[1] \div node_count

(* Entry (i, j) of fv_by_node.sum(1) with neighbours grouped the other     *)
(* way round (neighbour-major).                                            *)
sum_dim1_neighbor_major(data, node_count, nb, d, i, j) ==
    SumTo([t \in 1..nb |-> data[((t - 1) * node_count + (i - 1)) * d + j]], nb)

(* Entry (i, j) of fv_by_node.sum(1), fv_by_node being the row-major data  *)
(* viewed as (node_count, nb, d).                                          *)
sum_dim1(data, node_count, nb, d, i, j) ==
    SumTo([t \in 1..nb |-> data[((i - 1) * nb + (t - 1)) * d + j]], nb)

(* neigh_feats.view(node_count, nb_count, neigh_feats.shape[-1]) needs the *)
(* element counts to agree. *)
view_fits(neigh_feats, node_count) ==
    node_count * nb_count(neigh_feats, node_count)
        * neigh_feats.shape[Len(neigh_feats.shape)] = Len(neigh_feats.data)

SumAggregator_forward(neigh_feats, node_count) ==
    LET nb == nb_count(neigh_feats, node_count)
        d == neigh_feats.shape[Len(neigh_feats.shape)]
    IN  IF ~view_fits(neigh_feats, node_count) THEN FailureT("shape")
        ELSE SuccessT(Tensor(<<node_count, d>>,
                 [e \in 1..(node_count * d) |->
                     sum_dim1(neigh_feats.data, node_count, nb, d,
                              ((e - 1) \div d) + 1, ((e - 1) % d) + 1)]))

(* fv_by_node.mean(1): the sums over the common denominator nb_count. *)
MeanAggregator_forward(neigh_feats, node_count) ==
    LET nb == nb_count(neigh_feats, node_count)
        d == neigh_feats.shape[Len(neigh_feats.shape)]
    IN  IF ~view_fits(neigh_feats, node_count) THEN FailureT("shape")
        ELSE SuccessT([shape |-> <<node_count, d>>,
                       data |-> [e \in 1..(node_count * d) |->
                                   sum_dim1(neigh_feats.data, node_count, nb, d,
                                            ((e - 1) \div d) + 1, ((e - 1) % d) + 1)],
                       den |-> nb])

(***************************************************************************)
(* LinearChunk.forward entry by entry.  The parameters are kept symbolic:  *)
(* a product e * a * w is the record [e |-> <<r, pos>>, a |-> <<j, c>>,    *)
(* w |-> <<j, i>>] of input[0][r][pos], softmax(attention_weights[j])[c]   *)
(* and weight[j][i]; a sum of products is their set; an output entry is    *)
(* [terms |-> the sum, bias |-> the row of self.bias added to it].         *)
(***************************************************************************)
(* attention_weights is torch.Tensor(output_size, 3) *)
Components == 3

(* weight[rows].unsqueeze(1) * act(attention_weights[rows]).unsqueeze(2):  *)
(* (n, I) -> (n, 1, I) times (n, 3, 1) broadcasts to (n, 3, I).            *)
effective_weight(rows, input_size) ==
    Tensor(<<Len(rows), Components, input_size>>,
           [q \in 1..(Len(rows) * Components * input_size) |->
               [a |-> <<rows[((q - 1) \div (Components * input_size)) + 1],
                        (((q - 1) \div input_size) % Components) + 1>>,
                w |-> <<rows[((q - 1) \div (Components * input_size)) + 1],
                        ((q - 1) % input_size) + 1>>]])

(* w.view((-1, width)): the same entries, row-major, in rows of `width`. *)
view_rows(t, width) == Tensor(<<Len(t.data) \div width, width>>, t.data)

(* input[0].mm(w.t()) for input[0] of shape (B, width) and w (n, width). *)
mm_t(B, w) ==
    Tensor(<<B, w.shape[1]>>,
           [q \in 1..(B * w.shape[1]) |->
               LET r == ((q - 1) \div w.shape[1]) + 1
                   row == ((q - 1) % w.shape[1]) + 1
               IN  {[e |-> <<r, pos>>, a |-> At(w, row, pos).a,
                     w |-> At(w, row, pos).w] : pos \in 1..w.shape[2]}])

(* (input[0].unsqueeze(1).repeat(1, K, 1) * w.view((B, K, width))).sum(2)  *)
repeat_mul_sum(B, K, width, w) ==
    Tensor(<<B, K>>,
           [q \in 1..(B * K) |->
               LET r == ((q - 1) \div K) + 1
               IN  {[e |-> <<r, pos>>, a |-> w.data[(q - 1) * width + pos].a,
                     w |-> w.data[(q - 1) * width + pos].w] : pos \in 1..width}])

(* .squeeze(): every dimension of size 1 is dropped. *)
squeeze(t) ==
    [t EXCEPT !.shape = SelectSeq(t.shape, LAMBDA d : d # 1)]

(* x + y for a matrix x and a tensor y of rank 0, 1 or 2, by the           *)
(* broadcasting rule (trailing dimensions aligned, size 1 stretched).      *)
broadcast_add(x, y) ==
    LET R == x.shape[1]
        C == x.shape[2]
        rank == Len(y.shape)
        yrows == IF rank = 2 THEN y.shape[1] ELSE 1
        ycols == IF rank = 0 THEN 1 ELSE y.shape[rank]
        rows == IF R = 1 THEN yrows ELSE R
        cols == IF C = 1 THEN ycols ELSE C
    IN  IF \/ (R # yrows /\ R # 1 /\ yrows # 1)
           \/ (C # ycols /\ C # 1 /\ ycols # 1)
        THEN FailureT("shape")
        ELSE SuccessT(Tensor(<<rows, cols>>,
                 [q \in 1..(rows * cols) |->
                     LET r == ((q - 1) \div cols) + 1
                         c == ((q - 1) % cols) + 1
                         xr == IF R = 1 THEN 1 ELSE r
                         xc == IF C = 1 THEN 1 ELSE c
                         yr == IF yrows = 1 THEN 1 ELSE r
                         yc == IF ycols = 1 THEN 1 ELSE c
                     IN  [terms |-> At(x, xr, xc),
                          bias |-> y.data[(yr - 1) * ycols + yc]]]))

(* The rows 0 .. output_size - 1 of a shard. *)
all_rows(output_size) == [j \in 1..output_size |-> j - 1]

(* input[1] is None: x = input[0].mm(w.view((-1, width)).t()) +            *)
(* self.bias.view(-1)                                                      *)
LinearChunk_dense_terms(ch, B) ==
    LET width == Components * ch.input_size
        w == effective_weight(all_rows(ch.output_size), ch.input_size)
    IN  broadcast_add(mm_t(B, view_rows(w, width)),
                      Tensor(<<ch.output_size>>, all_rows(ch.output_size)))

(* len(input[1].shape) == 1: the same with weight[input[1]],               *)
(* attention_weights[input[1]] and bias[input[1]].                         *)
LinearChunk_1d_terms(ch, B, ids) ==
    LET width == Components * ch.input_size
        w == effective_weight(ids.v, ch.input_size)
    IN  IF \E c \in 1..Len(ids.v) : ids.v[c] >= ch.output_size
        THEN FailureT("index")
        ELSE broadcast_add(mm_t(B, view_rows(w, width)),
                           Tensor(<<Len(ids.v)>>, ids.v))

(* len(input[1].shape) == 2: F.embedding(...).view(B * K, -1) for weights  *)
(* and attention, w.view((B, K, width)), the product with the repeated     *)
(* input summed over axis 2, plus short_bias.squeeze().                    *)
LinearChunk_2d_terms(ch, B, ids) ==
    LET K == Len(ids.m[1])
        width == Components * ch.input_size
        short == Flatten(ids.m)
        w == effective_weight(short, ch.input_size)
        short_bias == Tensor(<<B, K, 1>>, short)
    IN  IF \E c \in 1..Len(short) : short[c] >= ch.output_size
        THEN FailureT("index")
        ELSE broadcast_add(repeat_mul_sum(B, K, width, w), squeeze(short_bias))

LinearChunk_forward_terms(ch, B, ids) ==
    IF ids.kind = "none" THEN LinearChunk_dense_terms(ch, B)
    ELSE IF ids.kind = "1d" THEN LinearChunk_1d_terms(ch, B, ids)
    ELSE LinearChunk_2d_terms(ch, B, ids)

(***************************************************************************)
(* The graph collaborator (interface of the specification, section 6).     *)
(***************************************************************************)
GraphNodes == 5

(* Exactly len(nodes) * k ids, node-major then neighbour-minor. *)
graph_sample_neighbors(nodes, k) ==
    Flatten([i \in 1..Len(nodes) |-> [j \in 1..k |-> (nodes[i] + j) % GraphNodes]])

(* Features of either sign. *)
Feature(node, j) == 7 * node + j - 10

(* One feature row per node, in the order of the input. *)
graph_node_features(nodes, feature_dim) ==
    Tensor(<<Len(nodes), feature_dim>>,
           Flatten([i \in 1..Len(nodes) |->
                       [j \in 1..feature_dim |-> Feature(nodes[i], j)]]))

(***************************************************************************)
(* GINEncoder.  Hop h of the stack is built with num_sample =              *)
(* fanouts[h - 1] (fanouts[h] here); hop 1 has query_func = query_feature, *)
(* hop h > 1 has query_func = the query of hop h - 1.                      *)
(***************************************************************************)
GINEncoder_query_feature(m, nodes) == graph_node_features(nodes, m.feature_dim)

(* The context with the neighbour branch queried for the nodes themselves. *)
RECURSIVE GINEncoder_query_same_nodes(_, _, _)
GINEncoder_query_same_nodes(m, hop, nodes) ==
    LET query_func(ns) == IF hop = 1 THEN GINEncoder_query_feature(m, ns)
                          ELSE GINEncoder_query_same_nodes(m, hop - 1, ns)
    IN  [node_feats |-> query_func(nodes),
         neighbor_feats |-> query_func(nodes),
         node_count |-> Len(nodes)]

RECURSIVE GINEncoder_query(_, _, _)
GINEncoder_query(m, hop, nodes) ==
    LET neigh_nodes == graph_sample_neighbors(nodes, m.fanouts[hop])
        query_func(ns) == IF hop = 1 THEN GINEncoder_query_feature(m, ns)
                          ELSE GINEncoder_query(m, hop - 1, ns)
    IN  [node_feats |-> query_func(nodes),
         neighbor_feats |-> query_func(neigh_nodes),
         node_count |-> Len(nodes)]

(* features.squeeze(0): a leading dimension of size 1 is dropped. *)
squeeze0(t) ==
    IF Len(t.shape) >= 1 /\ t.shape[1] = 1
    THEN [t EXCEPT !.shape = Tail(t.shape)] ELSE t

(* .t() of a matrix. *)
transpose(t) ==
    Tensor(<<t.shape[2], t.shape[1]>>,
           [e \in 1..Len(t.data) |->
               At(t, ((e - 1) % t.shape[1]) + 1, ((e - 1) \div t.shape[1]) + 1)])

(* The combination with eps left out: neigh_feats + self_feats. *)
gin_combine_without_eps(neigh_feats, self_feats, eps) ==
    LET d == neigh_feats.shape[2]
    IN  IF self_feats.shape \notin {neigh_feats.shape, <<d>>, <<1, d>>}
        THEN FailureT("shape")
        ELSE SuccessT(Tensor(neigh_feats.shape,
                 [e \in 1..Len(neigh_feats.data) |->
                     neigh_feats.data[e]
                       + self_feats.data[
                             IF self_feats.shape = neigh_feats.shape THEN e
                             ELSE ((e - 1) % d) + 1]]))

(* torch.add(neigh_feats, (1.0 + self.eps) * self_feats): self_feats has   *)
(* the shape of neigh_feats, or is one row broadcast over its rows.        *)
gin_combine(neigh_feats, self_feats, eps) ==
    LET d == neigh_feats.shape[2]
    IN  IF self_feats.shape \notin {neigh_feats.shape, <<d>>, <<1, d>>}
        THEN FailureT("shape")
        ELSE SuccessT(Tensor(neigh_feats.shape,
                 [e \in 1..Len(neigh_feats.data) |->
                     neigh_feats.data[e]
                       + (1 + eps) * self_feats.data[
                             IF self_feats.shape = neigh_feats.shape THEN e
                             ELSE ((e - 1) % d) + 1]]))

(* GINEncoder.forward; the result is combined.t().  The encoder's eps      *)
(* lives on enc_device, the features are moved to device_name.             *)
RECURSIVE GINEncoder_forward(_, _, _)
GINEncoder_forward(m, hop, ctx) ==
    LET features(x) ==
            IF hop = 1 THEN SuccessT(squeeze0(x))
            ELSE LET prev == GINEncoder_forward(m, hop - 1, x)
                 IN  IF prev.status = "error" THEN prev
                     ELSE SuccessT(transpose(prev.x))
        neighs == features(ctx.neighbor_feats)
        neigh_feats == IF neighs.status = "error" THEN neighs
                       ELSE SumAggregator_forward(neighs.x, ctx.node_count)
        self_feats == features(ctx.node_feats)
        combined == gin_combine(neigh_feats.x, self_feats.x, m.eps[hop])
    IN  IF neigh_feats.status = "error" THEN neigh_feats
        ELSE IF self_feats.status = "error" THEN self_feats
        ELSE IF m.enc_device # m.device_name THEN FailureT("device")
        ELSE IF combined.status = "error" THEN combined
        ELSE SuccessT(transpose(combined.x))

(***************************************************************************)
(* Residual.forward behind nn.ReLU and nn.Dropout (_construct_transform).  *)
(* Output entry (i, j) of transform `tr` is kept symbolically as the       *)
(* record [tr, j, x]: column j of the transform applied to input row x.    *)
(***************************************************************************)
Residual_forward(m, tr, embed) ==
    LET B == embed.shape[1]
        width == embed.shape[2]
        padding_size == m.hidden_dims - m.embed_dim
    IN  IF width + padding_size < 0 THEN FailureT("shape")
        ELSE IF m.tr_device # m.device_name THEN FailureT("device")
        ELSE IF width # m.embed_dim THEN FailureT("shape")
        ELSE IF m.training /\ B = 1 THEN FailureT("batchnorm")
        ELSE SuccessT(Tensor(<<B, m.hidden_dims>>,
                 Flatten([i \in 1..B |->
                            [j \in 1..m.hidden_dims |->
                                [tr |-> tr, j |-> j, x |-> Row(embed, i)]]])))

(***************************************************************************)
(* GalaXCBase.                                                             *)
(***************************************************************************)
NoModel ==
    [built |-> FALSE, fanouts |-> <<>>, feature_dim |-> 0, embed_dim |-> 0,
     hidden_dims |-> 0, num_labels |-> 0, device_name |-> "cpu",
     enc_device |-> "cpu", tr_device |-> "cpu", eps |-> <<>>, training |-> TRUE]

(* __init__: the assert on len(fanouts), then _construct_embeddings reads  *)
(* fanouts[0], fanouts[1] and fanouts[2], then the transforms and the      *)
(* classifier are built.  Parameters are created on the cpu and a new      *)
(* nn.Module is in training mode; eps is what torch.rand gave each hop.    *)
GalaXCBase_init(num_labels, hidden_dims, device_names, feature_dim, fanouts, embed_dim, eps) ==
    LET clf == LinearDistributed_init(num_labels, device_names)
        obj == [built |-> TRUE, fanouts |-> fanouts, feature_dim |-> feature_dim,
                embed_dim |-> embed_dim, hidden_dims |-> hidden_dims,
                num_labels |-> num_labels, device_name |-> device_names[1],
                enc_device |-> "cpu", tr_device |-> "cpu", eps |-> eps,
                training |-> TRUE]
    IN  IF Len(fanouts) \notin {1, 2, 3}
        THEN [status |-> "error", err |-> "assert", printed |-> <<>>,
              obj |-> NoModel, classifier |-> NoClassifier]
        ELSE IF Len(fanouts) < 3
        THEN [status |-> "error", err |-> "index", printed |-> <<>>,
              obj |-> NoModel, classifier |-> NoClassifier]
        ELSE IF ~clf.ok
        THEN [status |-> "error", err |-> "shape", printed |-> clf.printed,
              obj |-> NoModel, classifier |-> NoClassifier]
        ELSE [status |-> "ok", err |-> "", printed |-> clf.printed,
              obj |-> obj, classifier |-> clf.obj]

(* query: context["encoder"] = self.third_layer_enc.query(inputs, graph) *)
GalaXCBase_query(m, inputs) == GINEncoder_query(m, 3, inputs)

(* The concatenation with the blocks in the order hop 3, hop 2, hop 1. *)
cat3_dim1_reversed(t1, t2, t3) ==
    Tensor(<<t1.shape[1], t1.shape[2] + t2.shape[2] + t3.shape[2]>>,
           Flatten([i \in 1..t1.shape[1] |-> Row(t3, i) \o Row(t2, i) \o Row(t1, i)]))

(* torch.cat((t1, t2, t3), dim=1) *)
cat3_dim1(t1, t2, t3) ==
    Tensor(<<t1.shape[1], t1.shape[2] + t2.shape[2] + t3.shape[2]>>,
           Flatten([i \in 1..t1.shape[1] |-> Row(t1, i) \o Row(t2, i) \o Row(t3, i)]))

FirstError(outs) ==
    outs[CHOOSE p \in 1..Len(outs) :
            /\ outs[p].status = "error"
            /\ \A q \in 1..(p - 1) : outs[q].status # "error"]

GalaXCBase_encode(m, encoder) ==
    LET embed3 == GINEncoder_forward(m, 3, encoder)
        embed2 == GINEncoder_forward(m, 2, encoder.node_feats)
        embed1 == GINEncoder_forward(m, 1, encoder.node_feats.node_feats)
        hops == <<embed3, embed2, embed1>>
        t1 == Residual_forward(m, 1, transpose(embed1.x))
        t2 == Residual_forward(m, 2, transpose(embed2.x))
        t3 == Residual_forward(m, 3, transpose(embed3.x))
        trs == <<t1, t2, t3>>
    IN  IF \E p \in 1..3 : hops[p].status = "error" THEN FirstError(hops)
        ELSE IF \E p \in 1..3 : trs[p].status = "error" THEN FirstError(trs)
        ELSE SuccessT(cat3_dim1(t1.x, t2.x, t3.x))

(* forward: self.classifier((self.encode(batch_data), label_ids)); row r   *)
(* of the encoded batch is example r of the classifier's input.            *)
GalaXCBase_forward(m, clf, encoder, ids) ==
    LET encoded == GalaXCBase_encode(m, encoder)
    IN  IF encoded.status = "error" THEN Failure(encoded.err)
        ELSE LinearDistributed_forward(
                 clf, [dev |-> m.device_name,
                       x |-> [r \in 1..encoded.x.shape[1] |-> r]], ids)

(* LinearChunk.move_to_devices: super().to(self.device_embeddings), the    *)
(* device the shard was given at construction.                             *)
LinearChunk_move_to_devices(chunk) ==
    [chunk EXCEPT !.param_device = chunk.device_embeddings]

LinearDistributed_move_to_devices(clf) ==
    [clf EXCEPT !.classifiers =
        [p \in 1..Len(clf.classifiers) |->
            LinearChunk_move_to_devices(clf.classifiers[p])]]

(* third_layer_enc holds the other two hops as base_model, so .to() moves  *)
(* all three; self.device_embeddings = torch.device(self.device_name).     *)
GalaXCBase_move_to_devices(m) ==
    [m EXCEPT !.enc_device = m.device_name, !.tr_device = m.device_name]

(***************************************************************************)
(* State.                                                                  *)
(***************************************************************************)
Blank == [status |-> "none", err |-> "", x |-> <<>>]
BlankT == [status |-> "none", err |-> "", x |-> Tensor(<<>>, <<>>)]

NoIds == [kind |-> "none", dev |-> "cpu", v |-> <<>>, m |-> <<>>]
Embedding(B, dev) == [dev |-> dev, x |-> [r \in 1..B |-> r]]

NoContext == [queried |-> FALSE, inputs |-> <<>>, encoder |-> <<>>]
NoneMade == [op |-> "none", status |-> "none", err |-> "", output_size |-> 0,
             num_partitions |-> 0, fanouts |-> <<>>]
NoResult == [op |-> "none", out |-> Blank,
             req |-> [input0 |-> Embedding(0, "cpu"), ids |-> NoIds]]
NoAggregate == [op |-> "none", out |-> BlankT,
                req |-> [neighs |-> Tensor(<<>>, <<>>), node_count |-> 0]]
NoEncode == [op |-> "none", training |-> TRUE, out |-> BlankT]

NoChunk == [built |-> FALSE, input_size |-> 0, output_size |-> 0]
NoChunkRun == [chunk |-> NoChunk, op |-> "none", B |-> 0, ids |-> NoIds,
               out |-> BlankT]
NoHopOut == [hop |-> 0, out |-> BlankT, sum |-> BlankT, mean |-> BlankT]

Init ==
    /\ classifier = NoClassifier
    /\ model = NoModel
    /\ context = NoContext
    /\ stdout = <<>>
    /\ made = NoneMade
    /\ res = NoResult
    /\ agg = NoAggregate
    /\ enc = NoEncode
    /\ placed = FALSE
    /\ chunkrun = NoChunkRun
    /\ hopout = NoHopOut

(***************************************************************************)
(* Inputs.                                                                 *)
(***************************************************************************)
(* Flat lists of global label ids, sorted (hence bucketed by owner). *)
SortedIds(num_labels) ==
    UNION {{s \in [1..n -> 0..(num_labels - 1)] :
               \A c \in 1..(n - 1) : s[c] <= s[c + 1]} : n \in 0..MaxK}

(* (B, K) candidate matrices: a first row, shifted by one per example. *)
CandidateIds(B, K) ==
    {[r \in 1..B |-> [c \in 1..K |-> (row[c] + r - 1) % (MaxId + 1)]] :
        row \in [1..K -> 0..MaxId]}

Ids1D(v, dev) == [kind |-> "1d", dev |-> dev, v |-> v, m |-> <<>>]
Ids2D(m, dev) == [kind |-> "2d", dev |-> dev, v |-> <<>>, m |-> m]

(* A batch of B consecutive node ids. *)
NodeBatch(B, first) == [i \in 1..B |-> (first + i - 1) % GraphNodes]

(***************************************************************************)
(* The classifier on its own (all shards on the cpu).                      *)
(***************************************************************************)
ConstructClassifier(output_size, device_embeddings) ==
    LET built == LinearDistributed_init(output_size, device_embeddings)
    IN  /\ ~classifier.built
        /\ ~model.built
        /\ stdout' = built.printed
        /\ classifier' = IF built.ok THEN built.obj ELSE classifier
        /\ made' = [op |-> "classifier",
                    status |-> IF built.ok THEN "ok" ELSE "error",
                    err |-> IF built.ok THEN "" ELSE "shape",
                    output_size |-> output_size,
                    num_partitions |-> Len(device_embeddings),
                    fanouts |-> <<>>]
        /\ UNCHANGED <<model, context, res, agg, enc, placed, chunkrun, hopout>>

ClassifierForward(op, input0, ids) ==
    /\ classifier.built
    /\ res' = [op |-> op,
               out |-> LinearDistributed_forward(classifier, input0, ids),
               req |-> [input0 |-> input0, ids |-> ids]]
    /\ UNCHANGED <<classifier, model, context, stdout, made, agg, enc, placed, chunkrun, hopout>>

ConstructOnCpu ==
    \E output_size \in 1..MaxLabels : \E n \in 1..MaxShards :
        ConstructClassifier(output_size, [p \in 1..n |-> "cpu"])

ForwardDense ==
    \E B \in 1..MaxBatch : ClassifierForward("dense", Embedding(B, "cpu"), NoIds)

Forward1D ==
    \E B \in 1..MaxBatch :
        \E v \in SortedIds(IF classifier.built THEN classifier.output_size ELSE 1) :
            ClassifierForward("1d", Embedding(B, "cpu"), Ids1D(v, "cpu"))

Forward2D ==
    \E B \in 1..MaxBatch : \E K \in 0..MaxK : \E m \in CandidateIds(B, K) :
        ClassifierForward("2d", Embedding(B, "cpu"), Ids2D(m, "cpu"))

NextClassifier == ConstructOnCpu \/ ForwardDense \/ Forward1D \/ Forward2D

SpecClassifier == Init /\ [][NextClassifier]_vars

(***************************************************************************)
(* The aggregators on their own, on (rows, d) feature matrices.            *)
(***************************************************************************)
FeatureMatrix(rows, d, base) ==
    Tensor(<<rows, d>>, [e \in 1..(rows * d) |-> e * e + base])

AggregateSum ==
    \E rows \in 0..MaxRows, d \in 1..MaxDim, node_count \in 1..MaxNodes, base \in 0..1 :
        /\ agg' = [op |-> "sum",
                   out |-> SumAggregator_forward(FeatureMatrix(rows, d, base),
                                                 node_count),
                   req |-> [neighs |-> FeatureMatrix(rows, d, base),
                            node_count |-> node_count]]
        /\ UNCHANGED <<classifier, model, context, stdout, made, res, enc, placed, chunkrun, hopout>>

AggregateMean ==
    \E rows \in 0..MaxRows, d \in 1..MaxDim, node_count \in 1..MaxNodes, base \in 0..1 :
        /\ agg' = [op |-> "mean",
                   out |-> MeanAggregator_forward(FeatureMatrix(rows, d, base),
                                                  node_count),
                   req |-> [neighs |-> FeatureMatrix(rows, d, base),
                            node_count |-> node_count]]
        /\ UNCHANGED <<classifier, model, context, stdout, made, res, enc, placed, chunkrun, hopout>>

NextAggregator == AggregateSum \/ AggregateMean

SpecAggregator == Init /\ [][NextAggregator]_vars

(***************************************************************************)
(* The orchestrator: construction, query, encode, forward.                 *)
(***************************************************************************)
(* The end-to-end scenario of the specification (section 8). *)
Scenario ==
    [batch |-> 4, fanouts |-> <<2, 2, 2>>, feature_dim |-> 8, embed_dim |-> 16,
     hidden_dims |-> 16, num_labels |-> 100, shards |-> 2]

ModelDims ==
    {[feature_dim |-> 1, embed_dim |-> 1, hidden_dims |-> 1, num_labels |-> 3, shards |-> 2],
     [feature_dim |-> 2, embed_dim |-> 2, hidden_dims |-> 3, num_labels |-> 3, shards |-> 2],
     [feature_dim |-> 2, embed_dim |-> 2, hidden_dims |-> 1, num_labels |-> 3, shards |-> 1],
     [feature_dim |-> 2, embed_dim |-> 1, hidden_dims |-> 1, num_labels |-> 3, shards |-> 2]}

EpsChoices == {<<0, 0, 0>>, <<1, 0, 2>>}

(* Every list of three fan-outs, and the uniform lists of the other lengths. *)
FanoutLists ==
    [1..3 -> 1..MaxFanout]
        \cup {[i \in 1..n |-> k] : n \in 0..MaxHops, k \in 1..MaxFanout}

BatchStarts == {0, 1}

ConstructModel(dims, fanouts, device_names, eps) ==
    LET built == GalaXCBase_init(dims.num_labels, dims.hidden_dims, device_names,
                                 dims.feature_dim, fanouts, dims.embed_dim, eps)
    IN  /\ ~classifier.built
        /\ ~model.built
        /\ model' = IF built.status = "ok" THEN built.obj ELSE model
        /\ classifier' = IF built.status = "ok" THEN built.classifier ELSE classifier
        /\ stdout' = IF built.printed # <<>> THEN built.printed ELSE stdout
        /\ made' = [op |-> "model", status |-> built.status, err |-> built.err,
                    output_size |-> dims.num_labels,
                    num_partitions |-> Len(device_names), fanouts |-> fanouts]
        /\ placed' = FALSE
        /\ UNCHANGED <<context, res, agg, enc, chunkrun, hopout>>

ConstructModelOnCpu ==
    \E dims \in ModelDims, fanouts \in FanoutLists, eps \in EpsChoices :
        ConstructModel(dims, fanouts, [p \in 1..dims.shards |-> "cpu"], eps)

ConstructScenario ==
    ConstructModel(Scenario, Scenario.fanouts,
                   [p \in 1..Scenario.shards |-> "cpu"], <<0, 0, 0>>)

(* nn.Module.train() / .eval() *)
SetTraining ==
    /\ model.built
    /\ model' = [model EXCEPT !.training = ~@]
    /\ UNCHANGED <<classifier, context, stdout, made, res, agg, enc, placed, chunkrun, hopout>>

QueryBatch(B, first) ==
    /\ model.built
    /\ context' = [queried |-> TRUE, inputs |-> NodeBatch(B, first),
                   encoder |-> <<GalaXCBase_query(model, NodeBatch(B, first))>>]
    /\ res' = NoResult
    /\ enc' = NoEncode
    /\ hopout' = NoHopOut
    /\ UNCHANGED <<classifier, model, stdout, made, agg, placed, chunkrun>>

Query == \E B \in 1..MaxBatch, first \in BatchStarts : QueryBatch(B, first)

QueryScenario ==
    /\ model.feature_dim = Scenario.feature_dim
    /\ QueryBatch(Scenario.batch, 0)

Encode ==
    /\ model.built
    /\ context.queried
    /\ enc' = [op |-> "encode", training |-> model.training,
               out |-> GalaXCBase_encode(model, context.encoder[1])]
    /\ UNCHANGED <<classifier, model, context, stdout, made, res, agg, placed, chunkrun, hopout>>

ForwardWith(ids) ==
    /\ model.built
    /\ context.queried
    /\ enc' = [op |-> "encode", training |-> model.training,
               out |-> GalaXCBase_encode(model, context.encoder[1])]
    /\ res' = [op |-> "forward",
               out |-> GalaXCBase_forward(model, classifier, context.encoder[1], ids),
               req |-> [input0 |-> Embedding(Len(context.inputs), model.device_name),
                        ids |-> ids]]
    /\ UNCHANGED <<classifier, model, context, stdout, made, agg, placed, chunkrun, hopout>>

ForwardModelDense == ForwardWith(NoIds)

NextModel ==
    ConstructModelOnCpu \/ ConstructScenario \/ SetTraining \/ Query
        \/ QueryScenario \/ Encode \/ ForwardModelDense

SpecModel == Init /\ [][NextModel]_vars

(***************************************************************************)
(* Device placement.                                                       *)
(***************************************************************************)
Devices == {"cpu", "cuda:0", "cuda:1"}

MaxDeviceShards == 2

DeviceDims ==
    [feature_dim |-> 1, embed_dim |-> 1, hidden_dims |-> 1, num_labels |-> 2]

ConstructOnDevices ==
    \E n \in 1..MaxDeviceShards : \E device_names \in [1..n -> Devices] :
        ConstructModel(DeviceDims, <<1, 1, 1>>, device_names, <<0, 0, 0>>)

MoveToDevices ==
    /\ model.built
    /\ model' = GalaXCBase_move_to_devices(model)
    /\ classifier' = LinearDistributed_move_to_devices(classifier)
    /\ placed' = TRUE
    /\ res' = NoResult
    /\ enc' = NoEncode
    /\ UNCHANGED <<context, stdout, made, agg, chunkrun, hopout>>

(* The caller reassigns a shard: device_names is the list object that      *)
(* GalaXCBase.device_names and LinearDistributed.device_embeddings share.  *)
ChangeDeviceAssignment ==
    \E p \in 1..Len(classifier.device_embeddings) :
        \E dev \in Devices \ {classifier.device_embeddings[p]} :
            /\ model.built
            /\ classifier' = [classifier EXCEPT !.device_embeddings[p] = dev]
            /\ placed' = FALSE
            /\ res' = NoResult
            /\ enc' = NoEncode
            /\ UNCHANGED <<model, context, stdout, made, agg, chunkrun, hopout>>

QueryPair == QueryBatch(2, 0)

DeviceForward ==
    \E dev \in Devices :
        \E ids \in {NoIds, Ids1D(<<0, 0>>, dev), Ids2D(<<<<0, 0>>, <<0, 0>>>>, dev)} :
            ForwardWith(ids)

NextDevices ==
    ConstructOnDevices \/ MoveToDevices \/ ChangeDeviceAssignment \/ QueryPair
        \/ DeviceForward

SpecDevices == Init /\ [][NextDevices]_vars

(***************************************************************************)
(* One shard on its own (on the cpu), fed embeddings of three segments of  *)
(* input_size columns each, as encode produces them.                       *)
(***************************************************************************)
ConstructChunk ==
    \E input_size \in 1..MaxInput, output_size \in 1..MaxLabels :
        /\ chunkrun' = [NoChunkRun EXCEPT !.chunk =
                           [built |-> TRUE, input_size |-> input_size,
                            output_size |-> output_size]]
        /\ UNCHANGED <<classifier, model, context, stdout, made, res, agg, enc, placed, hopout>>

ChunkForward(op, B, ids) ==
    /\ chunkrun.chunk.built
    /\ chunkrun' = [chunkrun EXCEPT !.op = op, !.B = B, !.ids = ids,
                       !.out = LinearChunk_forward_terms(chunkrun.chunk, B, ids)]
    /\ UNCHANGED <<classifier, model, context, stdout, made, res, agg, enc, placed, hopout>>

ChunkDense == \E B \in 1..MaxBatch : ChunkForward("dense", B, NoIds)

Chunk1D ==
    \E B \in 1..MaxBatch : \E v \in SortedIds(MaxLabels) :
        ChunkForward("1d", B, Ids1D(v, "cpu"))

Chunk2D ==
    \E B \in 1..MaxBatch : \E K \in 1..MaxK : \E m \in CandidateIds(B, K) :
        ChunkForward("2d", B, Ids2D(m, "cpu"))

NextChunk == ConstructChunk \/ ChunkDense \/ Chunk1D \/ Chunk2D

SpecChunk == Init /\ [][NextChunk]_vars

(***************************************************************************)
(* One encoder hop on its own: hop h runs forward on the sub-context       *)
(* encode gives it (hop 3 the full context, hop 2 its node_feats, hop 1    *)
(* the innermost node_feats).  The sum and the mean of the hop's           *)
(* neighbour features are recorded beside it.                              *)
(***************************************************************************)
hop_context(encoder, hop) ==
    IF hop = 3 THEN encoder
    ELSE IF hop = 2 THEN encoder.node_feats
    ELSE encoder.node_feats.node_feats

(* self.features(context["neighbor_feats"]) of hop h *)
hop_neighbor_features(m, hop, ctx) ==
    IF hop = 1 THEN SuccessT(squeeze0(ctx.neighbor_feats))
    ELSE LET prev == GINEncoder_forward(m, hop - 1, ctx.neighbor_feats)
         IN  IF prev.status = "error" THEN prev ELSE SuccessT(transpose(prev.x))

HopForward ==
    \E hop \in 1..3 :
        LET ctx == hop_context(context.encoder[1], hop)
            neighs == hop_neighbor_features(model, hop, ctx)
        IN  /\ model.built
            /\ context.queried
            /\ hopout' = [hop |-> hop,
                          out |-> GINEncoder_forward(model, hop, ctx),
                          sum |-> IF neighs.status = "error" THEN neighs
                                  ELSE SumAggregator_forward(neighs.x, ctx.node_count),
                          mean |-> IF neighs.status = "error" THEN neighs
                                   ELSE MeanAggregator_forward(neighs.x, ctx.node_count)]
            /\ UNCHANGED <<classifier, model, context, stdout, made, res, agg, enc, placed, chunkrun>>

NextGin == ConstructModelOnCpu \/ Query \/ HopForward

SpecGin == Init /\ [][NextGin]_vars

(***************************************************************************)
(* Properties of the partitioned classifier (SpecClassifier).              *)
(***************************************************************************)
IsPartitionTable(pi, num_labels) ==
    /\ \A p \in 1..Len(pi) : pi[p][1] <= pi[p][2]
    /\ pi[1][1] = 0
    /\ \A p \in 1..(Len(pi) - 1) : pi[p + 1][1] = pi[p][2]
    /\ pi[Len(pi)][2] = num_labels
    /\ SumTo([p \in 1..Len(pi) |-> pi[p][2] - pi[p][1]], Len(pi)) = num_labels

(* C1: for every output_size >= 1 and every number of shards N >= 1, the   *)
(* table the constructor builds has N ranges with start <= end that are    *)
(* contiguous, start at 0, end at num_labels, and whose sizes sum to       *)
(* num_labels.                                                             *)
C1_PartitionTableCovers ==
    made.op = "classifier" =>
        /\ Len(stdout) = made.num_partitions
        /\ IsPartitionTable(stdout, made.output_size)

(* C2: in dense mode the result is a (batch, num_labels) matrix, and for   *)
(* every shard the columns [start, end) of its partition are that shard's  *)
(* own dense output on the same embedding batch.                           *)
C2_DenseComposable ==
    res.op = "dense" =>
        /\ res.out.status = "ok"
        /\ Len(res.out.x) = Len(res.req.input0.x)
        /\ \A r \in 1..Len(res.out.x) :
              /\ Len(res.out.x[r]) = classifier.output_size
              /\ \A p \in 1..Len(classifier.classifiers) :
                    SubSeq(res.out.x[r], classifier.partition_indices[p][1] + 1,
                           classifier.partition_indices[p][2])
                      = LinearChunk_forward(classifier.classifiers[p], p - 1,
                                            res.req.input0, NoIds).x[r]

C2_Witness ==
    /\ res.op = "dense"
    /\ res.out.status = "ok"
    /\ Len(res.req.input0.x) = 2
    /\ Len(classifier.classifiers) = 2
    /\ classifier.output_size = 3

Candidates == Len(res.req.ids.m[1])

Shards == Len(classifier.classifiers)

(* C3: in 2-D mode, a candidate count K that is not divisible by the       *)
(* number of shards makes forward fail; it never returns a result.         *)
C3_IndivisibleIsFatal ==
    (res.op = "2d" /\ Candidates % Shards # 0) => res.out.status = "error"

(* Every candidate id is a row of the shard that receives its column. *)
LocalIdsValid ==
    \A p \in 1..Shards : \A r \in 1..Len(res.req.ids.m) :
        LET short == shard_ids(classifier, p, res.req.ids).m[r]
        IN  \A c \in 1..Len(short) :
                short[c] < classifier.classifiers[p].output_size

(* C4: in 2-D mode with K >= 1 a multiple of N (and ids that are rows of   *)
(* the receiving shards), forward returns a (B, K) matrix whose column i   *)
(* is computed by shard floor(i / (K / N)).                                *)
C4_CandidateShape ==
    (res.op = "2d" /\ Candidates >= 1 /\ Candidates % Shards = 0 /\ LocalIdsValid) =>
        /\ res.out.status = "ok"
        /\ Len(res.out.x) = Len(res.req.input0.x)
        /\ \A r \in 1..Len(res.out.x) :
              /\ Len(res.out.x[r]) = Candidates
              /\ \A c \in 1..Candidates :
                    res.out.x[r][c].shard = (c - 1) \div (Candidates \div Shards)

(* The 1-based position of the shard whose range contains a label id. *)
Owner(id) ==
    CHOOSE p \in 1..Shards :
        /\ classifier.partition_indices[p][1] <= id
        /\ id < classifier.partition_indices[p][2]

(* C5: in 1-D mode (distinct global label ids, sorted) every id is         *)
(* evaluated by the shard that owns it, with the row of that label,        *)
(* without an index error, and the result has one column per entry of      *)
(* label_ids.                                                              *)
C5_RoutedToOwner ==
    (/\ res.op = "1d"
     /\ \A c \in 1..(Len(res.req.ids.v) - 1) : res.req.ids.v[c] < res.req.ids.v[c + 1]) =>
        /\ res.out.status = "ok"
        /\ \A r \in 1..Len(res.out.x) :
              /\ Len(res.out.x[r]) = Len(res.req.ids.v)
              /\ \A c \in 1..Len(res.req.ids.v) :
                    /\ res.out.x[r][c].shard = Owner(res.req.ids.v[c]) - 1
                    /\ res.out.x[r][c].w = res.req.ids.v[c]
                          - classifier.partition_indices[Owner(res.req.ids.v[c])][1]

(***************************************************************************)
(* Properties of the aggregators (SpecAggregator).                         *)
(***************************************************************************)
(* The sum of rows [(i-1)*k + 1, i*k] of the input matrix, column j. *)
GroupSum(neighs, k, i, j) ==
    SumTo([t \in 1..k |-> At(neighs, (i - 1) * k + t, j)], k)

C6_FanoutDepthChecked ==
    made.op = "model" =>
        IF Len(made.fanouts) \in {1, 2, 3}
        THEN made.status = "ok" /\ model.built
        ELSE made.status = "error" /\ ~model.built

(* The model of the end-to-end scenario, queried for its batch of 4 nodes. *)
ScenarioQueried ==
    /\ model.built
    /\ model.fanouts = Scenario.fanouts
    /\ model.feature_dim = Scenario.feature_dim
    /\ model.embed_dim = Scenario.embed_dim
    /\ model.num_labels = Scenario.num_labels
    /\ Len(classifier.classifiers) = Scenario.shards
    /\ context.queried
    /\ Len(context.inputs) = Scenario.batch

(* C7: in the end-to-end scenario (4 nodes, fan-outs [2,2,2], feature_dim  *)
(* 8, embed_dim 16, 100 labels, 2 shards with table [(0,50),(50,100)]),    *)
(* encode after query returns a (4, 3*hidden_dim) matrix without error,    *)
(* and dense forward returns a (4, 100) matrix whose columns [0:50] come   *)
(* from shard 0 and [50:100] from shard 1.                                 *)
C7_EndToEndShapes ==
    ScenarioQueried =>
        /\ classifier.partition_indices = <<<<0, 50>>, <<50, 100>>>>
        /\ enc.op = "encode" =>
              /\ enc.out.status = "ok"
              /\ enc.out.x.shape = <<Scenario.batch, 3 * model.hidden_dims>>
        /\ res.op = "forward" =>
              /\ res.out.status = "ok"
              /\ Len(res.out.x) = Scenario.batch
              /\ \A r \in 1..Len(res.out.x) :
                    /\ Len(res.out.x[r]) = Scenario.num_labels
                    /\ \A c \in 1..Len(res.out.x[r]) :
                          res.out.x[r][c].shard = (IF c <= 50 THEN 0 ELSE 1)

(* A context of depth h queried for n nodes: below the top, the node       *)
(* branch describes the same n nodes and the neighbour branch n times the  *)
(* level's fan-out; at depth 0 it is the raw feature matrix of n nodes.    *)
RECURSIVE WellFormed(_, _, _)
WellFormed(h, c, n) ==
    IF h = 0
    THEN /\ DOMAIN c = {"shape", "data", "den"}
         /\ c.shape = <<n, model.feature_dim>>
         /\ Len(c.data) = n * model.feature_dim
    ELSE /\ DOMAIN c = {"node_feats", "neighbor_feats", "node_count"}
         /\ c.node_count = n
         /\ WellFormed(h - 1, c.node_feats, n)
         /\ WellFormed(h - 1, c.neighbor_feats, n * model.fanouts[h])

(* C10: after query on B nodes with fan-outs [k1, k2, k3], the encoder     *)
(* context is nested exactly three levels deep; in every sub-context       *)
(* node_count is the number of nodes queried there and the neighbour       *)
(* branch describes node_count * fan-out nodes; the leaves are raw feature *)
(* matrices with between B and B*k3*k2*k1 rows.                            *)
C10_ContextNesting ==
    context.queried =>
        LET B == Len(context.inputs)
            c == context.encoder[1]
            k == model.fanouts
        IN  /\ WellFormed(3, c, B)
            /\ c.node_count = B
            /\ c.neighbor_feats.node_count = B * k[3]
            /\ c.node_feats.node_feats.node_feats.shape[1] = B
            /\ c.neighbor_feats.neighbor_feats.neighbor_feats.shape[1]
                  = B * k[3] * k[2] * k[1]

C10_Witness ==
    /\ context.queried
    /\ Len(context.inputs) = 2
    /\ model.fanouts = <<2, 1, 2>>
    /\ context.encoder[1].neighbor_feats.neighbor_feats.neighbor_feats.shape[1] = 8

(***************************************************************************)
(* Properties of device placement (SpecDevices).                           *)
(***************************************************************************)
(* C8: move_to_devices places shard i's parameters on device_names[i] and  *)
(* the encoder hops and transforms on device_names[0], so that no forward  *)
(* after it (in any mode) meets a device mismatch; a forward issued while  *)
(* some shard's assigned device differs from the device of its parameters  *)
(* ends in a device-mismatch error.                                        *)
C8_PlacementBeforeForward ==
    /\ placed =>
          /\ \A p \in 1..Len(classifier.classifiers) :
                classifier.classifiers[p].param_device = classifier.device_embeddings[p]
          /\ model.enc_device = classifier.device_embeddings[1]
          /\ model.tr_device = classifier.device_embeddings[1]
    /\ (placed /\ res.op = "forward") => res.out.err # "device"
    /\ (/\ ~placed
        /\ res.op = "forward"
        /\ \E p \in 1..Len(classifier.classifiers) :
              classifier.classifiers[p].param_device # classifier.device_embeddings[p]) =>
          res.out.status = "error" /\ res.out.err = "device"

(***************************************************************************)
(* The embeddings, stated on the graph rather than on the context.         *)
(***************************************************************************)
(* The hop-h GIN embedding of one node: hop 0 is its raw feature row, hop  *)
(* h adds the hop-(h-1) embeddings of its sampled neighbours to (1 + eps)  *)
(* times its own hop-(h-1) embedding.                                      *)
RECURSIVE HopEmbedding(_, _)
HopEmbedding(h, node) ==
    IF h = 0
    THEN [j \in 1..model.feature_dim |-> Feature(node, j)]
    ELSE LET k == model.fanouts[h]
             nbs == graph_sample_neighbors(<<node>>, k)
         IN  [j \in 1..model.feature_dim |->
                 SumTo([t \in 1..k |-> HopEmbedding(h - 1, nbs[t])[j]], k)
                   + (1 + model.eps[h]) * HopEmbedding(h - 1, node)[j]]

(* C11: when encode returns, its result has one row per batch node in      *)
(* batch order and three column blocks of width hidden_dims: block h is    *)
(* transform h applied to the hop-h embedding of that row's node, in the   *)
(* order hop 1, hop 2, hop 3.                                              *)
C11_EncodeBlocksInHopOrder ==
    (enc.op = "encode" /\ enc.out.status = "ok") =>
        LET B == Len(context.inputs)
            H == model.hidden_dims
        IN  /\ enc.out.x.shape = <<B, 3 * H>>
            /\ Len(enc.out.x.data) = B * 3 * H
            /\ \A b \in 1..B : \A h \in 1..3 : \A j \in 1..H :
                  At(enc.out.x, b, (h - 1) * H + j)
                    = [tr |-> h, j |-> j, x |-> HopEmbedding(h, context.inputs[b])]

C11_Witness ==
    /\ enc.op = "encode"
    /\ enc.out.status = "ok"
    /\ Len(context.inputs) = 2
    /\ model.hidden_dims = 3
    /\ model.fanouts = <<2, 1, 2>>
    /\ model.eps = <<1, 0, 2>>

(***************************************************************************)
(* Properties of one shard's logits (SpecChunk).                           *)
(***************************************************************************)
(* a1*(w_j . e1) + a2*(w_j . e2) + a3*(w_j . e3) + b_j for example r:      *)
(* segment c of the embedding is its columns (c-1)*input_size + 1 ..       *)
(* c*input_size.                                                           *)
SegmentLogit(r, j) ==
    [terms |-> {[e |-> <<r, (c - 1) * chunkrun.chunk.input_size + i>>,
                 a |-> <<j, c>>, w |-> <<j, i>>] :
                   c \in 1..Components, i \in 1..chunkrun.chunk.input_size},
     bias |-> j]

(* The rows the call asked for, per output position. *)
RequestedRows ==
    IF chunkrun.op = "dense" THEN all_rows(chunkrun.chunk.output_size)
    ELSE IF chunkrun.op = "1d" THEN chunkrun.ids.v
    ELSE Flatten(chunkrun.ids.m)

(* C12: in every mode, for every requested row j of the shard and every    *)
(* example r, the logit is a1*(w_j.e1) + a2*(w_j.e2) + a3*(w_j.e3) + b_j   *)
(* with (a1, a2, a3) the softmax of row j's attention logits; so the 2-D   *)
(* logit of candidate j equals the dense logit in column j.                *)
C12_ShardLogitFormula ==
    (/\ chunkrun.op # "none"
     /\ \A q \in 1..Len(RequestedRows) :
           RequestedRows[q] < chunkrun.chunk.output_size) =>
        LET B == chunkrun.B
            out == chunkrun.out
            cols == IF chunkrun.op = "2d" THEN Len(chunkrun.ids.m[1])
                    ELSE Len(RequestedRows)
            row(r, c) == IF chunkrun.op = "2d" THEN chunkrun.ids.m[r][c]
                         ELSE RequestedRows[c]
            dense == LinearChunk_dense_terms(chunkrun.chunk, B)
        IN  /\ out.status = "ok"
            /\ out.x.shape = <<B, cols>>
            /\ \A r \in 1..B : \A c \in 1..cols :
                  /\ At(out.x, r, c) = SegmentLogit(r, row(r, c))
                  /\ At(out.x, r, c) = At(dense.x, r, row(r, c) + 1)

(* The same, away from 2-D calls with one candidate column and B > 1. *)
C12_FormulaWithoutSqueezedColumn ==
    (chunkrun.op = "2d" /\ Len(chunkrun.ids.m[1]) = 1 /\ chunkrun.B > 1)
        \/ C12_ShardLogitFormula

(***************************************************************************)
(* Properties of one encoder hop (SpecGin).                                *)
(***************************************************************************)
(* The sum over the sampled neighbours of a node of their hop-(h-1)        *)
(* embeddings.                                                             *)
NeighborSum(h, node) ==
    LET k == model.fanouts[h]
        nbs == graph_sample_neighbors(<<node>>, k)
    IN  [j \in 1..model.feature_dim |->
            SumTo([t \in 1..k |-> HopEmbedding(h - 1, nbs[t])[j]], k)]

====
